---------------------------- MODULE Spec2Model ----------------------------
(***************************************************************************)
(* Terrain Ruler, src/measure.js: the incremental terrain cost of a ruler  *)
(* segment, on gridded maps (measureCostGridded) and on gridless maps      *)
(* (measureCostGridless, calculateGridless3dTerrainCost,                   *)
(* proportionalCost3d), as wrapped into libRuler by                        *)
(* terrainRulerAddProperties and terrainRulerModifyDistanceResult.         *)
(*                                                                         *)
(* JavaScript values are modelled exactly: a value is a record             *)
(*   [k |-> "num", n, d]   the rational n/d (d > 0, lowest terms)          *)
(*   [k |-> "inf", n, d]   +Infinity (n = 1) or -Infinity (n = -1)         *)
(*   [k |-> "nan", ...]    NaN                                             *)
(*   [k |-> "undef", ...]  undefined                                       *)
(* and the arithmetic and comparison operators follow IEEE 754 and the     *)
(* ECMAScript conversions (undefined converts to NaN, NaN compares false   *)
(* with everything, x / 0 is an infinity, 0 * Infinity is NaN).            *)
(***************************************************************************)
EXTENDS Integers, Sequences, FiniteSets, TLC

(***************************************************************************)
(* JavaScript numbers                                                      *)
(***************************************************************************)
\* The element of a one-element set. An operand bound as the element of a
\* set is evaluated once, however often the expression under it reads it.
The(S) == CHOOSE v \in S : TRUE

Abs(i) == IF i < 0 THEN -i ELSE i

Sign(i) == IF i < 0 THEN -1 ELSE IF i > 0 THEN 1 ELSE 0

RECURSIVE Gcd(_, _)
Gcd(a, b) == IF b = 0 THEN a ELSE Gcd(b, a % b)

Undef == [k |-> "undef", n |-> 0, d |-> 1]

NaN == [k |-> "nan", n |-> 0, d |-> 1]

Inf(s) == [k |-> "inf", n |-> s, d |-> 1]

\* The rational a/b in lowest terms, b # 0.
Rat(a, b) ==
  The({[k |-> "num", n |-> (Sign(b) * a) \div g, d |-> (Sign(b) * b) \div g] :
         g \in {Gcd(Abs(a), Abs(b))}})

Num(i) == [k |-> "num", n |-> i, d |-> 1]

IsNum(v) == v.k = "num"

IsNaN(v) == v.k = "nan"

\* ToNumber: undefined converts to NaN.
ToNumber(v) == The({IF w.k = "undef" THEN NaN ELSE w : w \in {v}})

\* The sign of a number or infinity.
Sgn(v) == Sign(v.n)

\* a + b
Add(x, y) ==
  The({IF a.k = "nan" \/ b.k = "nan" THEN NaN
       ELSE IF a.k = "inf" /\ b.k = "inf" THEN IF a.n = b.n THEN a ELSE NaN
       ELSE IF a.k = "inf" THEN a
       ELSE IF b.k = "inf" THEN b
       ELSE Rat(a.n * b.d + b.n * a.d, a.d * b.d) :
         a \in {ToNumber(x)}, b \in {ToNumber(y)}})

\* -a
Neg(x) == The({IF a.k = "nan" THEN NaN ELSE [a EXCEPT !.n = -a.n] : a \in {ToNumber(x)}})

\* a - b
Sub(x, y) == Add(x, Neg(y))

\* a * b
Mul(x, y) ==
  The({IF a.k = "nan" \/ b.k = "nan" THEN NaN
       ELSE IF a.k = "inf" \/ b.k = "inf"
         THEN IF Sgn(a) * Sgn(b) = 0 THEN NaN ELSE Inf(Sgn(a) * Sgn(b))
       ELSE Rat(a.n * b.n, a.d * b.d) :
         a \in {ToNumber(x)}, b \in {ToNumber(y)}})

\* a / b
Div(x, y) ==
  The({IF a.k = "nan" \/ b.k = "nan" THEN NaN
       ELSE IF a.k = "inf" /\ b.k = "inf" THEN NaN
       ELSE IF a.k = "inf" THEN Inf(a.n * (IF Sgn(b) < 0 THEN -1 ELSE 1))
       ELSE IF b.k = "inf" THEN Num(0)
       ELSE IF b.n = 0 THEN IF a.n = 0 THEN NaN ELSE Inf(Sgn(a))
       ELSE Rat(a.n * b.d, a.d * b.n) :
         a \in {ToNumber(x)}, b \in {ToNumber(y)}})

\* a < b: false when either side is NaN.
Lt(x, y) ==
  The({IF a.k = "nan" \/ b.k = "nan" THEN FALSE
       ELSE IF a.k = "inf" THEN a.n < 0 /\ ~(b.k = "inf" /\ b.n < 0)
       ELSE IF b.k = "inf" THEN b.n > 0
       ELSE a.n * b.d < b.n * a.d :
         a \in {ToNumber(x)}, b \in {ToNumber(y)}})

\* a > b
Gt(x, y) == Lt(y, x)

\* a === b: NaN is not equal to itself, undefined is.
StrictEq(x, y) == The({a.k # "nan" /\ b.k # "nan" /\ a = b : a \in {x}, b \in {y}})

\* The truthiness of a value: 0, NaN and undefined are falsy.
Truthy(x) == The({v.k = "inf" \/ (v.k = "num" /\ v.n # 0) : v \in {x}})

\* a || b
OrElse(x, y) == The({IF Truthy(a) THEN a ELSE y : a \in {x}})

\* Math.max(a, b)
MathMax(x, y) ==
  The({IF a.k = "nan" \/ b.k = "nan" THEN NaN ELSE IF Lt(a, b) THEN b ELSE a :
         a \in {ToNumber(x)}, b \in {ToNumber(y)}})

\* Math.min(a, b)
MathMin(x, y) ==
  The({IF a.k = "nan" \/ b.k = "nan" THEN NaN ELSE IF Lt(b, a) THEN b ELSE a :
         a \in {ToNumber(x)}, b \in {ToNumber(y)}})

\* Math.abs(a)
MathAbs(x) ==
  The({IF a.k = "nan" THEN NaN ELSE [a EXCEPT !.n = Abs(a.n)] : a \in {ToNumber(x)}})

\* floor(a / b) for b > 0, also when a < 0.
FloorDiv(a, b) == IF a >= 0 THEN a \div b ELSE -((-a + b - 1) \div b)

\* Math.round(a): the nearest integer, halves rounded up.
MathRound(x) ==
  The({IF a.k # "num" THEN a ELSE Num(FloorDiv(2 * a.n + a.d, 2 * a.d)) :
         a \in {ToNumber(x)}})

\* The integer square root, floor(sqrt(i)), searched between lo and hi.
RECURSIVE ISqrtIn(_, _, _)
ISqrtIn(i, lo, hi) ==
  IF lo >= hi THEN lo
  ELSE IF ((lo + hi + 1) \div 2) * ((lo + hi + 1) \div 2) <= i
    THEN ISqrtIn(i, (lo + hi + 1) \div 2, hi)
  ELSE ISqrtIn(i, lo, ((lo + hi + 1) \div 2) - 1)

ISqrt(i) == ISqrtIn(i, 0, IF i > 46340 THEN 46340 ELSE i)

\* Math.sqrt on a non-negative rational; exact on the squares of rationals,
\* rounded down to a multiple of 1/d otherwise.
MathSqrt(x) ==
  The({IF a.k = "nan" THEN NaN
       ELSE IF a.k = "inf" THEN IF a.n > 0 THEN a ELSE NaN
       ELSE IF a.n < 0 THEN NaN
       ELSE Rat(ISqrt(a.n * a.d), a.d) :
         a \in {ToNumber(x)}})

\* A number that is >= 0 (not NaN, not undefined, not an infinity).
IsNonNegative(v) == v.k = "num" /\ v.n >= 0

(***************************************************************************)
(* The canvas: settings, placeables, and the external collaborators        *)
(***************************************************************************)
\* A point {x, y, z}; z may be undefined.
Point(px, py, pz) == [x |-> px, y |-> py, z |-> pz]

\* A placeable (terrain, template or token) with an axis-aligned rectangular
\* footprint [x0, x1] x [y0, y1] in pixels; min, max and multiple are the
\* Enhanced Terrain Layer data (each may be undefined); for a token, min is
\* its data.elevation and max its estimated height.
Placeable(i, ax, ay, bx, by, lo, hi, m) ==
  [id |-> i, x0 |-> ax, y0 |-> ay, x1 |-> bx, y1 |-> by,
   min |-> lo, max |-> hi, multiple |-> m, size |-> "none"]

\* A token: its box (x, y, hitArea.width, hitArea.height), data.elevation
\* and the size trait of its actor ("none" when the actor has none).
Token(i, ax, ay, w, h, e, sz) ==
  [id |-> i, x0 |-> ax, y0 |-> ay, x1 |-> ax + w, y1 |-> ay + h,
   min |-> e, max |-> Undef, multiple |-> Undef, size |-> sz]

\* shape.contains(x, y) of a rectangular footprint.
Contains(p, px, py) ==
  /\ ~Lt(px, Num(p.x0)) /\ ~Gt(px, Num(p.x1)) /\ IsNum(ToNumber(px))
  /\ ~Lt(py, Num(p.y0)) /\ ~Gt(py, Num(p.y1)) /\ IsNum(ToNumber(py))

\* The elements of a sequence that satisfy Test, in order.
SelectPlaceables(seq, px, py) == SelectSeq(seq, LAMBDA p : Contains(p, px, py))

\* canvas.terrain.terrainFromPixels(x, y)
terrainFromPixels(scene, px, py) == SelectPlaceables(scene.terrains, px, py)

\* templateFromPixels(x, y)
templateFromPixels(scene, px, py) == SelectPlaceables(scene.templates, px, py)

\* tokenFromPixels(x, y)
tokenFromPixels(scene, px, py) == SelectPlaceables(scene.tokens, px, py)

\* Whether the elevation passed to the terrain layer lies in a placeable's
\* band; an undefined elevation or bound does not restrict.
InBand(p, elevation) ==
  \/ elevation.k = "undef"
  \/ /\ (p.min.k = "undef" \/ ~Lt(elevation, p.min))
     /\ (p.max.k = "undef" \/ ~Gt(elevation, p.max))

\* The largest multiple of the placeables of a sequence, at least acc.
RECURSIVE MaxMultiple(_, _)
MaxMultiple(seq, acc) ==
  IF seq = << >> THEN acc
  ELSE The({MaxMultiple(Tail(seq), larger) :
              larger \in {IF Gt(Head(seq).multiple, acc) THEN Head(seq).multiple
                          ELSE acc}})

\* canvas.terrain.cost({x, y}, options) of Enhanced Terrain Layer: the
\* movement-cost multiplier at a point, 1 outside every terrain and
\* template; a terrain of multiple below 1 lowers it.
getCostEnhancedTerrainlayer(scene, px, py, elevation) ==
  The({IF here = << >> THEN Num(1)
       ELSE IF \A i \in 1..Len(here) : Lt(here[i].multiple, Num(1))
         THEN here[1].multiple
       ELSE MaxMultiple(here, Num(1)) :
         here \in {SelectSeq(terrainFromPixels(scene, px, py)
                               \o templateFromPixels(scene, px, py),
                             LAMBDA p : InBand(p, elevation) /\ p.multiple.k = "num")}})

\* incrementalCost(x, y, options)
incrementalCost(scene, px, py, elevation) ==
  MathMax(Num(0), Sub(getCostEnhancedTerrainlayer(scene, px, py, elevation), Num(1)))

\* libRuler's RulerUtilities.calculateDistance(A, B): the 2-D distance, and
\* with Elevation Ruler's override the 3-D distance of two points that both
\* carry an elevation.
calculateDistance(st, A, B) ==
  LET dx == Sub(B.x, A.x)
      dy == Sub(B.y, A.y)
      d2 == Add(Mul(dx, dx), Mul(dy, dy))
      dz == Sub(B.z, A.z)
  IN  IF st.elevationRuler /\ A.z.k # "undef" /\ B.z.k # "undef"
        THEN MathSqrt(Add(d2, Mul(dz, dz)))
      ELSE MathSqrt(d2)

\* libRuler's RulerUtilities.almostEqual(a, b)
almostEqual(a, b) == IsNum(ToNumber(a)) /\ IsNum(ToNumber(b)) /\ a = b

\* canvas.grid.grid.getPixelsFromGridPosition(row, col) on a square grid.
getPixelsFromGridPosition(st, row, col) == <<Num(col * st.grid), Num(row * st.grid)>>

\* canvas.grid.grid.getGridPositionFromPixels(x, y) on a square grid.
getGridPositionFromPixels(st, px, py) ==
  <<FloorDiv(py.n, py.d * st.grid), FloorDiv(px.n, px.d * st.grid)>>

(***************************************************************************)
(* The gridded walk                                                        *)
(***************************************************************************)
\* A grid step [row, col, elevation] as the grid iterator yields it.
GridPos(r, c, e) == [row |-> r, col |-> c, elevation |-> e]

\* A cost_calculation_type that takes only "EUCL" for the euclidean rule and
\* leaves any other rule unrecognized.
CostCalculationTypeStrict(st) ==
  IF st.systemId = "pf2e" THEN "equidistant"
  ELSE IF st.diagonalRule = "none" THEN "euclidean"
  ELSE IF st.diagonalRule = "555" THEN "equidistant"
  ELSE IF st.diagonalRule = "5105" THEN "5105"
  ELSE IF st.diagonalRule = "EUCL" THEN "euclidean"
  ELSE "unrecognized"

\* cost_calculation_type; "none" is an unset canvas.grid.diagonalRule.
CostCalculationType(st) ==
  IF st.systemId = "pf2e" THEN "equidistant"
  ELSE IF st.diagonalRule = "none" THEN "euclidean"
  ELSE IF st.diagonalRule = "555" THEN "equidistant"
  ELSE IF st.diagonalRule = "5105" THEN "5105"
  ELSE "euclidean"

\* A grid space costed by the grid size in pixels.
equidistantCostInPixels(st, c) == Mul(c, Num(st.grid))

\* equidistantCostForGridSpace(c)
equidistantCostForGridSpace(st, c) == Mul(c, Num(st.gridDistance))

\* A 5-10-5 cost whose parity is that of the diagonals before this one.
grid5105CostParitySwapped(st, c, num_diagonals) ==
  Mul(Mul(c, Num(st.gridDistance)),
      Num(IF num_diagonals % 2 = 0 THEN (IF st.flag1515 THEN 2 ELSE 1)
          ELSE (IF st.flag1515 THEN 1 ELSE 2)))

\* grid5105CostForGridSpace(c, num_diagonals)
grid5105CostForGridSpace(st, c, num_diagonals) ==
  LET mult == IF num_diagonals % 2 = 0
                THEN (IF st.flag1515 THEN 1 ELSE 2)
                ELSE (IF st.flag1515 THEN 2 ELSE 1)
  IN  Mul(equidistantCostForGridSpace(st, c), Num(mult))

\* gridEuclideanCostForGridSpace(c, current, prior)
gridEuclideanCostForGridSpace(st, c, current, prior) ==
  LET s == getPixelsFromGridPosition(st, current.row, current.col)
      p == getPixelsFromGridPosition(st, prior.row, prior.col)
      p_step == Point(s[1], s[2],
                      IF st.useElevation THEN OrElse(current.elevation, Num(0)) ELSE Undef)
      p_prior == Point(p[1], p[2],
                       IF st.useElevation THEN OrElse(prior.elevation, Num(0)) ELSE Undef)
      step_distance ==
        MathRound(Mul(Div(calculateDistance(st, p_prior, p_step), Num(st.grid)),
                      Num(st.gridDistance)))
  IN  Mul(c, step_distance)

\* The elevation of a step after the use-elevation adjustment.
StepElevation(st, path, current) ==
  IF ~st.useElevation THEN Undef
  ELSE IF current.elevation.k = "undef" THEN path.origin.z
  ELSE current.elevation

\* elevation_g: the step's elevation in grid units, rounded.
StepElevationG(st, path, current) ==
  The({IF elevation.k = "undef" THEN Undef
       ELSE MathRound(Mul(Div(elevation, Num(st.grid)), Num(st.gridDistance))) :
         elevation \in {StepElevation(st, path, current)}})

\* The incremental cost c of a step's grid space.
StepCost(st, scene, path, current) ==
  The({incrementalCost(scene, Num(current.col), Num(current.row), elevation_g) :
         elevation_g \in {StepElevationG(st, path, current)}})

\* An is_diagonal that every change of elevation sets.
IsDiagonalOnAnyElevationChange(st, path, current, prior) ==
  \/ (prior.row # current.row /\ prior.col # current.col)
  \/ Truthy(OrElse(Sub(StepElevation(st, path, current), prior.elevation), Num(0)))

\* is_diagonal of a step against the prior step.
IsDiagonal(st, path, current, prior) ==
  LET elevation_change ==
        OrElse(Sub(StepElevation(st, path, current), prior.elevation), Num(0))
  IN  \/ (prior.row # current.row /\ prior.col # current.col)
      \/ /\ Truthy(elevation_change)
         /\ ~(prior.row = current.row /\ prior.col = current.col)

\* The walk before its first step: total_cost, num_diagonals and prior.
\* prior's elevation is physical_path.z, which no path carries.
WalkStart(st, path) ==
  LET g == getGridPositionFromPixels(st, path.origin.x, path.origin.y)
  IN  [total_cost |-> Num(0), num_diagonals |-> 0,
       prior |-> GridPos(g[1], g[2], Undef), error |-> FALSE, seen |-> << >>]

\* One iteration of the loop over the grid iterator. seen keeps, for each
\* step so far, the step, its incremental cost c, whether it was diagonal
\* and what it added to total_cost.
WalkStep(st, scene, path, w, current) ==
  The({LET nd == IF type # "equidistant" /\ diag THEN w.num_diagonals + 1
                 ELSE w.num_diagonals
           added == IF type = "equidistant" \/ ~diag
                      THEN equidistantCostForGridSpace(st, c)
                    ELSE IF type = "5105" THEN grid5105CostForGridSpace(st, c, nd)
                    ELSE IF type = "euclidean"
                      THEN gridEuclideanCostForGridSpace(st, c, current, w.prior)
                    ELSE Num(0)
       IN  [total_cost |-> Add(w.total_cost, added), num_diagonals |-> nd,
            prior |-> current,
            error |-> w.error
                      \/ (type \notin {"equidistant", "5105", "euclidean"} /\ diag),
            seen |-> Append(w.seen, [current |-> current, prior |-> w.prior, c |-> c,
                                     is_diagonal |-> diag, cost |-> added])] :
         c \in {StepCost(st, scene, path, current)},
         type \in {CostCalculationType(st)},
         diag \in {IsDiagonal(st, path, current, w.prior)}})

\* measureCostGridded(physical_path): the loop over the steps the grid
\* iterator yields for the path.
RECURSIVE WalkAll(_, _, _, _, _)
WalkAll(st, scene, path, w, steps) ==
  IF steps = << >> THEN w
  ELSE The({WalkAll(st, scene, path, next, Tail(steps)) :
              next \in {WalkStep(st, scene, path, w, Head(steps))}})

measureCostGridded(st, scene, path, steps) ==
  The({WalkAll(st, scene, path, start, steps).total_cost :
         start \in {WalkStart(st, path)}})


(***************************************************************************)
(* Terrain edges                                                           *)
(***************************************************************************)
\* LineSegment.fromPoints(p1, p2); none marks the undefined that stands
\* where a function returned no value.
LineSegment(ax, ay, bx, by) ==
  [p1 |-> [x |-> Num(ax), y |-> Num(ay)], p2 |-> [x |-> Num(bx), y |-> Num(by)],
   none |-> FALSE]

UndefinedEdge ==
  [p1 |-> [x |-> Undef, y |-> Undef], p2 |-> [x |-> Undef, y |-> Undef], none |-> TRUE]

\* poly.shape.points of a rectangular terrain, relative to (poly.x, poly.y):
\* the four corners and the first corner again.
PolygonPoints(p) ==
  <<0, 0, p.x1 - p.x0, 0, p.x1 - p.x0, p.y1 - p.y0, 0, p.y1 - p.y0, 0, 0>>

\* getEdgesFromPolygon(poly)
getEdgesFromPolygon(p) ==
  LET points == PolygonPoints(p)
      n == (Len(points) - 2 + 1) \div 2
  IN  [i \in 1..n |->
        LineSegment(p.x0 + points[2 * (i - 1) + 1], p.y0 + points[2 * (i - 1) + 2],
                    p.x0 + points[2 * (i - 1) + 3], p.y0 + points[2 * (i - 1) + 4])]

\* The edges of a template whose shape is a NormalizedRectangle.
getEdgesFromRectangle(p) ==
  <<LineSegment(p.x0, p.y0, p.x1, p.y0), LineSegment(p.x1, p.y0, p.x1, p.y1),
    LineSegment(p.x1, p.y1, p.x0, p.y1), LineSegment(p.x0, p.y1, p.x0, p.y0)>>

\* getEdgesFromToken(token): the four edges are pushed on a local array and
\* the function ends without a return statement.
getEdgesFromToken(token) == <<UndefinedEdge>>

\* Array.prototype.flat, and reduce with concat: the concatenation of the
\* arrays of an array.
RECURSIVE Flat(_)
Flat(arrays) ==
  IF arrays = << >> THEN << >> ELSE Head(arrays) \o Flat(Tail(arrays))

\* collectTerrainEdges(token_id_to_exclude)
collectTerrainEdges(scene, token_id_to_exclude) ==
  LET terrainEdges ==
        Flat([i \in 1..Len(scene.terrains) |-> getEdgesFromPolygon(scene.terrains[i])])
      others == SelectSeq(scene.tokens, LAMBDA t : t.id # token_id_to_exclude)
      tokenEdges == Flat([i \in 1..Len(others) |-> getEdgesFromToken(others[i])])
      templateEdges ==
        Flat([i \in 1..Len(scene.templates) |-> getEdgesFromRectangle(scene.templates[i])])
  IN  terrainEdges \o templateEdges

\* edge.intersection(rulerSegment) of two line segments: the point they
\* share, none when they are parallel or do not meet.
intersection(edge, ruler) ==
  LET rx == Sub(edge.p2.x, edge.p1.x)
      ry == Sub(edge.p2.y, edge.p1.y)
      sx == Sub(ruler.p2.x, ruler.p1.x)
      sy == Sub(ruler.p2.y, ruler.p1.y)
      denom == Sub(Mul(rx, sy), Mul(ry, sx))
      qx == Sub(ruler.p1.x, edge.p1.x)
      qy == Sub(ruler.p1.y, edge.p1.y)
      Within(v) == IsNum(v) /\ ~Lt(v, Num(0)) /\ ~Gt(v, Num(1))
  IN  The({IF Within(t) /\ Within(u)
             THEN <<[x |-> Add(edge.p1.x, Mul(t, rx)), y |-> Add(edge.p1.y, Mul(t, ry)),
                     z |-> Undef, ref |-> "edge"]>>
           ELSE << >> :
             t \in {Div(Sub(Mul(qx, sy), Mul(qy, sx)), denom)},
             u \in {Div(Sub(Mul(qx, ry), Mul(qy, rx)), denom)}})

\* rulerSegment.isVertical
isVertical(ruler) == StrictEq(ruler.p1.x, ruler.p2.x)

(***************************************************************************)
(* The gridless measurement                                                *)
(***************************************************************************)
\* getTokenHeight(token)
getTokenHeight(st, token) ==
  LET height == CASE token.size = "grg" -> Num(48)
                  [] token.size = "huge" -> Num(24)
                  [] token.size = "lg" -> Num(12)
                  [] token.size = "med" -> Num(6)
                  [] token.size = "sm" -> Num(3)
                  [] token.size = "tiny" -> Rat(3, 2)
                  [] OTHER -> Undef
      w == token.x1 - token.x0
      h == token.y1 - token.y0
  IN  OrElse(height,
             MathRound(Mul(Div(Num(IF h > w THEN h ELSE w), Num(st.grid)),
                           Num(st.gridDistance))))

\* A proportional cost that trims the part above the band only.
proportionalCostTopTrimOnly(st, max0, min0, mult, segmentLength, max_elevation, min_elevation) ==
  The({IF StrictEq(mult, Num(0)) THEN Num(0)
       ELSE IF Gt(min_elevation, max) \/ Lt(max_elevation, min) THEN Num(0)
       ELSE IF almostEqual(max_elevation, min_elevation) THEN Mul(segmentLength, mult)
       ELSE Mul(Sub(segmentLength,
                    Mul(segmentLength,
                        Div(MathMax(Sub(max_elevation, max), Num(0)),
                            MathAbs(Sub(max_elevation, min_elevation))))), mult) :
         max \in {Div(Mul(max0, Num(st.grid)), Num(st.gridDistance))},
         min \in {Div(Mul(min0, Num(st.grid)), Num(st.gridDistance))}})

\* proportionalCost3d(max, min, mult, segmentLength, max_elevation, min_elevation)
proportionalCost3d(st, max0, min0, mult, segmentLength, max_elevation, min_elevation) ==
  The({LET total_elevation_shift == MathAbs(Sub(max_elevation, min_elevation))
           top_trim_elevation == MathMax(Sub(max_elevation, max), Num(0))
           top_trim_proportion == Div(top_trim_elevation, total_elevation_shift)
           bottom_trim_elevation == MathMax(Sub(min, min_elevation), Num(0))
           bottom_trim_proportion == Div(bottom_trim_elevation, total_elevation_shift)
           remainder_dist ==
             Sub(Sub(segmentLength, Mul(segmentLength, top_trim_proportion)),
                 Mul(segmentLength, bottom_trim_proportion))
       IN  IF StrictEq(mult, Num(0)) THEN Num(0)
           ELSE IF /\ (StrictEq(max, Undef) \/ StrictEq(max, NaN)
                         \/ Lt(max_elevation, max))
                   /\ (StrictEq(min, Undef) \/ StrictEq(min, NaN)
                         \/ Gt(min_elevation, min))
             THEN Mul(mult, segmentLength)
           ELSE IF Gt(min_elevation, max) THEN Num(0)
           ELSE IF Lt(max_elevation, min) THEN Num(0)
           ELSE IF almostEqual(max_elevation, min_elevation)
             THEN Mul(segmentLength, mult)
           ELSE Mul(remainder_dist, mult) :
         max \in {Div(Mul(max0, Num(st.grid)), Num(st.gridDistance))},
         min \in {Div(Mul(min0, Num(st.grid)), Num(st.gridDistance))}})

\* The min, max and mult that calculateGridless3dTerrainCost reads off a
\* terrain, a template and a token.
TerrainVolume(t) ==
  [min |-> t.min, max |-> t.max, mult |-> MathMax(Sub(t.multiple, Num(1)), Num(0))]

TemplateVolume(t) ==
  [min |-> t.min, max |-> t.max,
   mult |-> MathMax(Num(0), OrElse(Sub(t.multiple, Num(1)), Num(0)))]

TokenVolume(st, t) ==
  LET min == OrElse(t.min, Num(0))
  IN  [min |-> min, max |-> Add(min, getTokenHeight(st, t)),
       mult |-> IF st.countTokens THEN Num(1) ELSE Num(0)]

\* The volumes at a point, in the order their costs are added.
VolumesAt(st, scene, px, py) ==
  The({[i \in 1..Len(terrains) |-> TerrainVolume(terrains[i])]
       \o [i \in 1..Len(templates) |-> TemplateVolume(templates[i])]
       \o [i \in 1..Len(tokens) |-> TokenVolume(st, tokens[i])] :
         terrains \in {terrainFromPixels(scene, px, py)},
         templates \in {templateFromPixels(scene, px, py)},
         tokens \in {tokenFromPixels(scene, px, py)}})

\* A reduce that keeps the largest of the volumes' costs.
RECURSIVE LargestProportional(_, _, _, _, _)
LargestProportional(st, vols, segmentLength, max_elevation, min_elevation) ==
  IF vols = << >> THEN Num(0)
  ELSE MathMax(LargestProportional(st, SubSeq(vols, 1, Len(vols) - 1), segmentLength,
                                   max_elevation, min_elevation),
               Mul(vols[Len(vols)].mult, segmentLength))

\* The reduce over the volumes: cost + proportionalCost3d(...) from 0.
RECURSIVE SumProportional(_, _, _, _, _)
SumProportional(st, vols, segmentLength, max_elevation, min_elevation) ==
  IF vols = << >> THEN Num(0)
  ELSE The({Add(cost, proportionalCost3d(st, vols[Len(vols)].max, vols[Len(vols)].min,
                                         vols[Len(vols)].mult, segmentLength,
                                         max_elevation, min_elevation)) :
              cost \in {SumProportional(st, SubSeq(vols, 1, Len(vols) - 1),
                                        segmentLength, max_elevation, min_elevation)}})

\* The cost of a sub-segment of elevation span [min(z), max(z)] against the
\* volumes at its midpoint: cost3d_terrains + cost3d_templates + cost3d_tokens.
Cost3dOfVolumes(st, vols, startz, endz, segmentLength) ==
  The({SumProportional(st, vols, segmentLength, max_elevation, min_elevation) :
         max_elevation \in {MathMax(startz, endz)},
         min_elevation \in {MathMin(startz, endz)}})

\* calculateGridless3dTerrainCost(start, end, segmentLength)
calculateGridless3dTerrainCost(st, scene, start, end, segmentLength) ==
  The({The({Cost3dOfVolumes(st, vols, start.z, end.z, segmentLength) :
              vols \in {VolumesAt(st, scene, cost_x, cost_y)}}) :
         cost_x \in {Div(Add(start.x, end.x), Num(2))},
         cost_y \in {Div(Add(start.y, end.y), Num(2))}})

\* A cost taken at the sub-segment's start instead of its midpoint.
calculateGridlessTerrainCostAtStart(st, scene, start, end, segmentLength) ==
  Mul(segmentLength, incrementalCost(scene, start.x, start.y, Undef))

\* calculateGridlessTerrainCost(start, end, segmentLength)
calculateGridlessTerrainCost(st, scene, start, end, segmentLength) ==
  The({Mul(segmentLength, incrementalCost(scene, cost_x, cost_y, Undef)) :
         cost_x \in {Div(Add(start.x, end.x), Num(2))},
         cost_y \in {Div(Add(start.y, end.y), Num(2))}})


\* Array.prototype.sort by a comparator a.key - b.key, which is stable: an
\* element goes behind every element whose key is not greater than its own.
RECURSIVE InsertSorted(_, _)
InsertSorted(sorted, e) ==
  IF sorted = << >> THEN <<e>>
  ELSE IF Gt(Head(sorted).key, e.key) THEN <<e>> \o sorted
  ELSE The({<<Head(sorted)>> \o rest : rest \in {InsertSorted(Tail(sorted), e)}})

RECURSIVE SortByKey(_)
SortByKey(arr) ==
  IF arr = << >> THEN << >>
  ELSE The({InsertSorted(sorted, arr[Len(arr)]) :
              sorted \in {SortByKey(SubSeq(arr, 1, Len(arr) - 1))}})

\* A sort key that is the distance along x on every ruler segment.
SortKeyAlongX(path, p) == MathAbs(Sub(p.x, path.origin.x))

\* The key the intersections are sorted by: the distance from the origin
\* along y on a vertical ruler segment, along x otherwise.
SortKey(path, p) ==
  LET ruler == [p1 |-> path.origin, p2 |-> path.destination]
  IN  IF isVertical(ruler) THEN MathAbs(Sub(p.y, path.origin.y))
      ELSE MathAbs(Sub(p.x, path.origin.x))

\* The sorted intersections array: the points where the edges meet the
\* ruler segment, then the path's origin and destination objects.
Intersections(path, terrainEdges) ==
  LET ruler == [p1 |-> path.origin, p2 |-> path.destination]
  IN  The({The({[i \in 1..Len(sorted) |-> sorted[i].point] :
                  sorted \in {SortByKey([i \in 1..Len(pushed) |->
                                          [key |-> SortKey(path, pushed[i]),
                                           point |-> pushed[i]]])}}) :
             pushed \in {Flat([i \in 1..Len(terrainEdges) |->
                                intersection(terrainEdges[i], ruler)])
                         \o <<[x |-> path.origin.x, y |-> path.origin.y,
                               z |-> path.origin.z, ref |-> "origin"]>>
                         \o <<[x |-> path.destination.x, y |-> path.destination.y,
                               z |-> path.destination.z, ref |-> "destination"]>>}})

\* elevation_ratio
ElevationRatio(st, path) ==
  LET path_dist2d ==
        calculateDistance(st, Point(path.origin.x, path.origin.y, Undef),
                          Point(path.destination.x, path.destination.y, Undef))
      elevation_change == Sub(path.destination.z, path.origin.z)
  IN  OrElse(Div(elevation_change, path_dist2d), Num(0))

\* The assignment pts[i].z = z: the origin and destination elements of the
\* array are the path's own objects, so the path changes with them.
SetZ(s, i, z) ==
  [s EXCEPT !.pts[i].z = z,
            !.path.origin.z = IF s.pts[i].ref = "origin" THEN z ELSE @,
            !.path.destination.z = IF s.pts[i].ref = "destination" THEN z ELSE @]

\* The elevation assignments of the reduce callback on the pair
\* (pts[i], pts[i + 1]): start.z, then end.z.
PairElevations(st, elevation_ratio, s, i) ==
  LET o == Point(s.path.origin.x, s.path.origin.y, Undef)
  IN  The({The({SetZ(s1, i + 1, end_z) :
                  end_z \in {IF Truthy(elevation_ratio)
                               THEN Mul(calculateDistance(st, o, s1.pts[i + 1]),
                                        elevation_ratio)
                             ELSE s1.path.destination.z}}) :
             s1 \in {The({SetZ(s, i, start_z) :
                            start_z \in {IF Truthy(elevation_ratio)
                                           THEN Mul(calculateDistance(st, o, s.pts[i]),
                                                    elevation_ratio)
                                         ELSE s.path.origin.z}})}})

\* The rest of the callback: the sub-segment's length and its cost, added
\* to the running cost.
PairCost(st, scene, s, i) ==
  LET start == s.pts[i]
      end == s.pts[i + 1]
  IN  The({The({[s EXCEPT !.cost = Add(@, incremental_cost),
                          !.segs = Append(@, [start |-> start, end |-> end,
                                              segmentLength |-> segmentLength,
                                              cost |-> incremental_cost])] :
                  incremental_cost \in
                    {IF st.useElevation
                       THEN calculateGridless3dTerrainCost(st, scene, start, end,
                                                           segmentLength)
                     ELSE calculateGridlessTerrainCost(st, scene, start, end,
                                                       segmentLength)}}) :
             segmentLength \in {Mul(Div(calculateDistance(st, start, end), Num(st.grid)),
                                    Num(st.gridDistance))}})

\* One call of the reduce callback, on the pair (pts[i], pts[i + 1]).
GridlessPair(st, scene, elevation_ratio, s, i) ==
  The({PairCost(st, scene, s2, i) : s2 \in {PairElevations(st, elevation_ratio, s, i)}})

\* The reduce over iteratePairs(intersections), from pair i on.
RECURSIVE GridlessPairs(_, _, _, _, _)
GridlessPairs(st, scene, elevation_ratio, s, i) ==
  IF i > Len(s.pts) - 1 THEN s
  ELSE The({GridlessPairs(st, scene, elevation_ratio, next, i + 1) :
              next \in {GridlessPair(st, scene, elevation_ratio, s, i)}})

\* measureCostGridless(physical_path, terrainEdges): the cost, with the path
\* as the call leaves it, the elevation ratio, the sorted intersections and
\* the sub-segments.
measureCostGridless(st, scene, path, terrainEdges) ==
  The({The({[cost |-> done.cost, path |-> done.path,
             elevation_ratio |-> elevation_ratio, sorted |-> sorted,
             pts |-> done.pts, segs |-> done.segs] :
              done \in {GridlessPairs(st, scene, elevation_ratio,
                                      [path |-> path, pts |-> sorted, cost |-> Num(0),
                                       segs |-> << >>], 1)}}) :
         elevation_ratio \in {ElevationRatio(st, path)},
         sorted \in {Intersections(path, terrainEdges)}})

(***************************************************************************)
(* The two wrappers                                                        *)
(***************************************************************************)
\* The elevation block of terrainRulerModifyDistanceResult: the path as the
\* cost measurement receives it.
AdjustElevation(st, flags, path) ==
  LET e == flags.starting_token.elevation
      starting_token_elevation ==
        IF StrictEq(e, Undef) THEN Undef
        ELSE Div(Mul(e, Num(st.grid)), Num(st.gridDistance))
      p1 == IF st.useElevation
              THEN [path EXCEPT
                      !.origin.z = IF StrictEq(@, Undef)
                                     THEN starting_token_elevation ELSE @,
                      !.destination.z = IF StrictEq(@, Undef)
                                          THEN starting_token_elevation ELSE @]
            ELSE [path EXCEPT !.origin.z = Undef, !.destination.z = Undef]
      p2 == [p1 EXCEPT !.origin.z = IF StrictEq(@, NaN) THEN Undef ELSE @]
  IN  [p2 EXCEPT !.destination.z = IF StrictEq(@, NaN) THEN Undef ELSE @]


\* libRuler's RulerUtilities.iterateGridUnderLine(origin, destination), as
\* wrapped by Elevation Ruler: the grid spaces from the origin's towards the
\* destination's, one row and one column at a time, each with the elevation
\* of the line there when both ends carry a numeric one.
RECURSIVE GridLine(_, _, _, _, _, _)
GridLine(r, c, r1, c1, i, elevations) ==
  IF r = r1 /\ c = c1 THEN << >>
  ELSE The({<<GridPos(nr, nc, elevations[i])>>
            \o GridLine(nr, nc, r1, c1, i + 1, elevations) :
              nr \in {r + Sign(r1 - r)}, nc \in {c + Sign(c1 - c)}})

iterateGridUnderLine(st, path) ==
  LET a == getGridPositionFromPixels(st, path.origin.x, path.origin.y)
      b == getGridPositionFromPixels(st, path.destination.x, path.destination.y)
      dr == Abs(b[1] - a[1])
      dc == Abs(b[2] - a[2])
      n == IF dr > dc THEN dr ELSE dc
  IN  The({GridLine(a[1], a[2], b[1], b[2], 1, elevations) :
             elevations \in
               {[i \in 1..n |->
                  IF st.elevationRuler /\ IsNum(path.origin.z)
                       /\ IsNum(path.destination.z)
                    THEN Add(path.origin.z,
                             Div(Mul(Num(i), Sub(path.destination.z, path.origin.z)),
                                 Num(n)))
                  ELSE Undef]}})

\* terrainRulerModifyDistanceResult(wrapped, measured_distance, physical_path):
\* the value returned, the path as the call leaves it, and (on a gridless
\* map) what the measurement did.
NoMeasurement ==
  [cost |-> Undef, path |-> << >>, elevation_ratio |-> Undef, sorted |-> << >>,
   pts |-> << >>, segs |-> << >>]

terrainRulerModifyDistanceResult(st, scene, flags, measured_distance, path) ==
  IF ~st.isTerrainRuler
    THEN [value |-> measured_distance, path |-> path, received |-> path,
          m |-> NoMeasurement]
  ELSE IF st.gridType = "gridless"
    THEN The({The({[value |-> Add(measured_distance, gridless.cost),
                    path |-> gridless.path, received |-> adjusted, m |-> gridless] :
                     gridless \in {measureCostGridless(st, scene, adjusted,
                                                       flags.terrain_edges)}}) :
                adjusted \in {AdjustElevation(st, flags, path)}})
  ELSE The({The({[value |-> Add(measured_distance, gridded), path |-> adjusted,
                  received |-> adjusted,
                  m |-> [NoMeasurement EXCEPT !.cost = gridded]] :
                   gridded \in {The({measureCostGridded(st, scene, adjusted, steps) :
                                       steps \in {iterateGridUnderLine(st, adjusted)}})}}) :
              adjusted \in {AdjustElevation(st, flags, path)}})

\* The collectTerrainEdges calls that terrainRulerAddProperties evaluates for
\* the segment segment_num: the argument of setFlag and the argument of log.
CollectorRuns(st, segment_num) ==
  IF st.isTerrainRuler /\ segment_num = 0 /\ st.gridType = "gridless"
    THEN Cardinality({"setFlag", "log"})
  ELSE 0

\* this.ruler._getMovementToken(): the token the ruler moves, if any.
getMovementToken(scene) == SelectSeq(scene.tokens, LAMBDA t : t.id = scene.mover)

\* terrainRulerAddProperties(wrapped, ...args) of the segment segment_num:
\* the ruler's flags after the call.
terrainRulerAddProperties(st, scene, flags, segment_num) ==
  LET t == getMovementToken(scene)
      id == IF t = << >> THEN "undefined" ELSE t[1].id
      e == IF t = << >> THEN Undef ELSE t[1].min
  IN  IF ~st.isTerrainRuler \/ segment_num # 0 THEN flags
      ELSE [starting_token |-> [id |-> id, elevation |-> e],
            terrain_edges |-> IF st.gridType = "gridless"
                                THEN collectTerrainEdges(scene, id)
                              ELSE flags.terrain_edges,
            edges_set |-> flags.edges_set \/ st.gridType = "gridless",
            token_set |-> TRUE]


(***************************************************************************)
(* State                                                                   *)
(***************************************************************************)
VARIABLES
  settings,   \* game.settings, game.system.id and the canvas grid and scene data
  scene,      \* the placeables on the canvas and the ruler's movement token
  flags,      \* the ruler's "terrain-ruler" flags: starting_token, terrain_edges
  path,       \* the physical_path object handed to modifyDistanceResult
  pc,         \* where the session, the walk or the cost evaluation stands
  calls,      \* the modifyDistanceResult calls made so far, oldest first
  segments,   \* the number of addProperties calls made so far
  walk,       \* measureCostGridded's locals: total_cost, num_diagonals, prior
  steps,      \* the number of steps the grid iterator has yielded to the walk
  cin,        \* the arguments of a calculateGridless3dTerrainCost evaluation
  cout,       \* its result: the cost of each volume and their sum
  collected   \* the number of collectTerrainEdges runs so far

vars == <<settings, scene, flags, path, pc, calls, segments, walk, steps, cin, cout, collected>>

(***************************************************************************)
(* Bounds and input sets                                                   *)
(***************************************************************************)
\* modifyDistanceResult calls per session.
MaxCalls == 2

\* addProperties calls (ruler segments) per session.
MaxSegments == 2

\* Steps the grid iterator yields in one walk.
MaxSteps == 3

\* Elevations and band limits of a cost evaluation range over 0..MaxLevel.
MaxLevel == 3

GridDistances == {5}

Setting(ue, er, ct, sys, rule, f15, gt, g, gd) ==
  [isTerrainRuler |-> TRUE, useElevation |-> ue, elevationRuler |-> er,
   countTokens |-> ct, systemId |-> sys, diagonalRule |-> rule, flag1515 |-> f15,
   gridType |-> gt, grid |-> g, gridDistance |-> gd]

\* game.system.id, canvas.grid.diagonalRule and the "15-15-15" setting.
\* "MANH" stands for a rule the module does not know, "none" for no rule.
GriddedRules ==
  {<<"dnd5e", "555", FALSE>>, <<"dnd5e", "5105", FALSE>>, <<"dnd5e", "5105", TRUE>>,
   <<"dnd5e", "EUCL", FALSE>>, <<"dnd5e", "MANH", FALSE>>, <<"dnd5e", "none", FALSE>>,
   <<"pf2e", "5105", FALSE>>}

GriddedSettings ==
  {Setting(ue, er, TRUE, r[1], r[2], r[3], "gridded", 10, gd) :
     ue \in BOOLEAN, er \in BOOLEAN, r \in GriddedRules, gd \in GridDistances}

GridlessSettings ==
  {Setting(ue, er, ct, "dnd5e", "5105", FALSE, "gridless", g, gd) :
     ue \in BOOLEAN, er \in BOOLEAN, ct \in BOOLEAN, g \in {5, 10}, gd \in GridDistances}

\* A ruler that is not a terrain ruler.
InactiveSettings ==
  {[Setting(TRUE, FALSE, TRUE, "dnd5e", "5105", FALSE, gt, 10, gd)
      EXCEPT !.isTerrainRuler = FALSE] : gt \in {"gridded", "gridless"}, gd \in GridDistances}

SceneOf(terrains, templates, tokens, mover) ==
  [terrains |-> terrains, templates |-> templates, tokens |-> tokens, mover |-> mover]

\* Scenes of a gridless map, in pixels.
GridlessScenes ==
  LET t0 == Placeable("t0", 2, -2, 6, 2, Num(0), Num(4), Num(2))
      t1 == Placeable("t1", 4, -2, 8, 2, Num(0), Num(4), Num(2))
      t2 == Placeable("t2", 0, 4, 4, 8, Num(1), Num(2), Num(3))
      t3 == Placeable("t3", -6, -2, -2, 2, Num(0), Num(4), Rat(1, 2))
      big == Placeable("big", -20, -20, 30, 30, Num(0), Num(10), Num(3))
      m1 == Placeable("m1", 0, -2, 10, 10, Undef, Undef, Num(3))
      m2 == Placeable("m2", 0, -2, 10, 10, Num(0), Num(1), Undef)
      tok == Token("tok", 6, -2, 4, 4, Num(0), "med")
      mover == Token("mover", 0, -2, 4, 4, Num(1), "none")
  IN  {SceneOf(<< >>, << >>, << >>, "none"),
       SceneOf(<<t1, t2, t3>>, << >>, << >>, "none"),
       SceneOf(<<t1, big>>, << >>, <<mover>>, "mover"),
       SceneOf(<< >>, <<m1>>, << >>, "none"),
       SceneOf(<<t0>>, <<m2>>, <<mover>>, "mover"),
       SceneOf(<< >>, << >>, <<tok, mover>>, "mover")}

\* Scenes of a gridded map, in grid spaces (x is the column, y the row).
GriddedScenes ==
  LET all == Placeable("all", -9, -9, 9, 9, Undef, Undef, Num(2))
      col == Placeable("col", 1, 0, 1, 3, Num(0), Num(5), Num(3))
      row == Placeable("row", 0, 2, 3, 2, Undef, Undef, Rat(1, 2))
      mover == Token("mover", 0, 0, 1, 1, Num(1), "none")
  IN  {SceneOf(<<all>>, << >>, << >>, "none"),
       SceneOf(<<col, row>>, << >>, <<mover>>, "mover")}

\* The elevations a path's ends may carry.
ElevationPairs ==
  {<<Undef, Undef>>, <<Num(0), Num(0)>>, <<Num(2), Num(2)>>, <<Num(0), Num(9)>>,
   <<Num(9), Num(0)>>, <<NaN, Num(0)>>, <<Num(0), NaN>>, <<Num(2), Undef>>}

PathOf(ox, oy, dx, dy, zs) ==
  [origin |-> Point(Num(ox), Num(oy), zs[1]),
   destination |-> Point(Num(ox + dx), Num(oy + dy), zs[2])]

GridlessPaths ==
  {PathOf(2, 0, d[1], d[2], zs) :
     d \in {<<12, 0>>, <<0, 12>>, <<-12, 0>>, <<12, 9>>, <<0, 0>>}, zs \in ElevationPairs}

GriddedPaths ==
  {PathOf(5, 5, d[1], d[2], zs) :
     d \in {<<30, 0>>, <<30, 30>>, <<20, 30>>, <<0, 0>>},
     zs \in {<<Undef, Undef>>, <<Num(0), Num(0)>>, <<Num(0), Num(20)>>, <<NaN, Num(0)>>}}

\* The distance libRuler measured for the path, before terrain.
BaseDistances == {Num(15)}

NoFlags ==
  [starting_token |-> [id |-> "undefined", elevation |-> Undef],
   terrain_edges |-> << >>, edges_set |-> FALSE, token_set |-> FALSE]

NoWalk == [total_cost |-> Num(0), num_diagonals |-> 0, prior |-> GridPos(0, 0, Undef),
           error |-> FALSE, seen |-> << >>]

NoInput == [vols |-> << >>, startz |-> Undef, endz |-> Undef, segmentLength |-> Undef]

NoOutput == [each |-> << >>, cost |-> Undef]

(***************************************************************************)
(* A measurement session: addProperties for each segment, then             *)
(* modifyDistanceResult calls on the path                                  *)
(***************************************************************************)
Init ==
  /\ \/ settings \in GridlessSettings /\ scene \in GridlessScenes /\ path \in GridlessPaths
     \/ settings \in GriddedSettings /\ scene \in GriddedScenes /\ path \in GriddedPaths
     \/ /\ settings \in InactiveSettings
        /\ scene \in (IF settings.gridType = "gridless" THEN GridlessScenes ELSE GriddedScenes)
        /\ path = PathOf(2, 0, 12, 0, <<Num(0), Num(9)>>)
  /\ flags = NoFlags
  /\ pc = "session"
  /\ calls = << >>
  /\ segments = 0
  /\ walk = NoWalk
  /\ steps = 0
  /\ cin = NoInput
  /\ cout = NoOutput
  /\ collected = 0

\* libRuler adds the properties of segment number `segments`.
AddProperties ==
  /\ pc = "session"
  /\ segments < MaxSegments
  /\ flags' = terrainRulerAddProperties(settings, scene, flags, segments)
  /\ collected' = collected + CollectorRuns(settings, segments)
  /\ segments' = segments + 1
  /\ UNCHANGED <<settings, scene, path, pc, calls, walk, steps, cin, cout>>

\* libRuler measures the path: one modifyDistanceResult call.
ModifyDistanceResult ==
  /\ pc = "session"
  /\ segments > 0
  /\ Len(calls) < MaxCalls
  /\ \E measured_distance \in BaseDistances :
       \E r \in {terrainRulerModifyDistanceResult(settings, scene, flags,
                                                  measured_distance, path)} :
           /\ calls' = Append(calls, [base |-> measured_distance, before |-> path,
                                      received |-> r.received, value |-> r.value,
                                      m |-> r.m, scene |-> scene,
                                      edges |-> flags.terrain_edges])
           /\ path' = r.path
  /\ UNCHANGED <<settings, scene, flags, pc, segments, walk, steps, cin, cout, collected>>

Next == AddProperties \/ ModifyDistanceResult

Spec == Init /\ [][Next]_vars

(***************************************************************************)
(* A gridless session during which the map changes                         *)
(***************************************************************************)
InitStale ==
  /\ settings \in {s \in GridlessSettings : s.grid = 5 /\ ~s.elevationRuler}
  /\ scene \in GridlessScenes
  /\ path \in {PathOf(2, 0, 12, 0, zs) : zs \in {<<Undef, Undef>>, <<Num(0), Num(0)>>}}
  /\ flags = NoFlags
  /\ pc = "session"
  /\ calls = << >>
  /\ segments = 0
  /\ walk = NoWalk
  /\ steps = 0
  /\ cin = NoInput
  /\ cout = NoOutput
  /\ collected = 0

\* A user deletes the oldest terrain of the scene, or its oldest template,
\* while the ruler is out.
TerrainChanges ==
  /\ pc = "session"
  /\ \/ scene.terrains # << >> /\ scene' = [scene EXCEPT !.terrains = Tail(@)]
     \/ scene.templates # << >> /\ scene' = [scene EXCEPT !.templates = Tail(@)]
  /\ UNCHANGED <<settings, flags, path, calls, pc, segments, walk, steps, cin, cout,
                 collected>>

NextStale == AddProperties \/ ModifyDistanceResult \/ TerrainChanges

SpecStale == InitStale /\ [][NextStale]_vars

(***************************************************************************)
(* One gridded walk, step by step: measureCostGridded's loop over whatever *)
(* steps the grid iterator yields                                          *)
(***************************************************************************)
\* A map whose every space costs 1 more, and 2 more in column 1 at
\* elevations 0 to 4.
WalkScene ==
  SceneOf(<<Placeable("all", -9, -9, 9, 9, Undef, Undef, Num(2)),
            Placeable("col", 1, 0, 1, 9, Num(0), Num(4), Num(3))>>, << >>, << >>, "none")

\* The elevations a yielded step may carry, in pixels.
StepElevations == {Undef, Num(10)}

InitWalk ==
  /\ settings \in GriddedSettings
  /\ scene = WalkScene
  /\ path = PathOf(5, 5, 30, 30, <<Num(0), Num(10)>>)
  /\ flags = NoFlags
  /\ pc = "called"
  /\ calls = << >>
  /\ segments = 0
  /\ walk = NoWalk
  /\ steps = 0
  /\ cin = NoInput
  /\ cout = NoOutput
  /\ collected = 0

\* measureCostGridded up to the loop: total_cost, num_diagonals, prior.
StartWalk ==
  /\ pc = "called"
  /\ walk' = WalkStart(settings, path)
  /\ pc' = "walking"
  /\ UNCHANGED <<settings, scene, flags, path, calls, segments, steps, cin, cout, collected>>

\* The iterator yields a step: the same or the next row, the same or the
\* next column, with or without an elevation.
WalkNext ==
  /\ pc = "walking"
  /\ steps < MaxSteps
  /\ \E dr \in {0, 1}, dc \in {0, 1}, elevation \in StepElevations :
       walk' = WalkStep(settings, scene, path, walk,
                        GridPos(walk.prior.row + dr, walk.prior.col + dc, elevation))
  /\ steps' = steps + 1
  /\ UNCHANGED <<settings, scene, flags, path, pc, calls, segments, cin, cout, collected>>

\* The iterator is exhausted: return total_cost.
FinishWalk ==
  /\ pc = "walking"
  /\ pc' = "returned"
  /\ cout' = [each |-> << >>, cost |-> walk.total_cost]
  /\ UNCHANGED <<settings, scene, flags, path, calls, segments, walk, steps, cin, collected>>

NextWalk == StartWalk \/ WalkNext \/ FinishWalk

SpecWalk == InitWalk /\ [][NextWalk]_vars

(***************************************************************************)
(* One evaluation of the 3-D cost of a sub-segment against the volumes at  *)
(* its midpoint                                                            *)
(***************************************************************************)
\* Elevations and band limits, in grid units: multiples of 5.
Levels == {Num(5 * i) : i \in 0..MaxLevel}

\* The volumes a midpoint may lie in: a band [min, max] with
\* min <= max or no band at all, and an incremental multiplier.
Volumes ==
  {[min |-> lo, max |-> hi, mult |-> Num(m)] :
     lo \in Levels, hi \in Levels, m \in {1, 2}} \cup
  {[min |-> Undef, max |-> Undef, mult |-> Num(1)]}

VolumeLists ==
  {<<v>> : v \in {w \in Volumes : ~Gt(w.min, w.max)}} \cup
  {<<v, w>> : v \in {u \in Volumes : ~Gt(u.min, u.max)},
              w \in {u \in Volumes : ~Gt(u.min, u.max) /\ u.mult = Num(1)}}

InitCost3d ==
  /\ settings \in {Setting(TRUE, TRUE, TRUE, "dnd5e", "5105", FALSE, "gridless", g, 5) :
                     g \in {5, 10}}
  /\ scene = SceneOf(<< >>, << >>, << >>, "none")
  /\ path = PathOf(0, 0, 10, 0, <<Num(0), Num(0)>>)
  /\ flags = NoFlags
  /\ pc = "cost3d"
  /\ calls = << >>
  /\ segments = 0
  /\ walk = NoWalk
  /\ steps = 0
  /\ cin \in {[vols |-> vols, startz |-> startz, endz |-> endz,
                segmentLength |-> Num(10)] :
                 vols \in VolumeLists, startz \in Levels, endz \in Levels}
  /\ cout = NoOutput
  /\ collected = 0

\* calculateGridless3dTerrainCost once the volumes at the midpoint are known.
ApplyCost3d ==
  /\ pc = "cost3d"
  /\ pc' = "costed"
  /\ cout' = [each |-> [i \in 1..Len(cin.vols) |->
                          proportionalCost3d(settings, cin.vols[i].max, cin.vols[i].min,
                                             cin.vols[i].mult, cin.segmentLength,
                                             MathMax(cin.startz, cin.endz),
                                             MathMin(cin.startz, cin.endz))],
              cost |-> Cost3dOfVolumes(settings, cin.vols, cin.startz, cin.endz,
                                       cin.segmentLength)]
  /\ UNCHANGED <<settings, scene, flags, path, calls, segments, walk, steps, cin, collected>>

NextCost3d == ApplyCost3d

SpecCost3d == InitCost3d /\ [][NextCost3d]_vars

(***************************************************************************)
(* Properties of a measurement session                                     *)
(***************************************************************************)
\* The 2-D distance of two points.
Length2d(A, B) ==
  MathSqrt(Add(Mul(Sub(B.x, A.x), Sub(B.x, A.x)), Mul(Sub(B.y, A.y), Sub(B.y, A.y))))

\* A path is flat on the canvas when its ends share their x and y.
ZeroLength2d(p) == p.origin.x = p.destination.x /\ p.origin.y = p.destination.y

\* An elevation that is a number or absent.
NumberOrAbsent(z) == z.k \in {"num", "undef"}

\* The calls a terrain ruler measured.
Measured == {i \in 1..Len(calls) : settings.isTerrainRuler}

\* C1: for every path and every terrain configuration the incremental
\* terrain cost is a number >= 0, so modifyDistanceResult never returns less
\* than the base distance. Stated for the first call of a session, on a path
\* of nonzero 2-D length whose end elevations are numbers or absent.
C1_CostNonNegative ==
  \A i \in Measured :
    (i = 1 /\ ~ZeroLength2d(calls[i].before)
       /\ NumberOrAbsent(calls[i].before.origin.z)
       /\ NumberOrAbsent(calls[i].before.destination.z))
    => /\ IsNonNegative(calls[i].m.cost)
       /\ IsNum(calls[i].value)
       /\ ~Lt(calls[i].value, calls[i].base)

\* A sloped path under a template that has a multiple and no elevation band
\* has been measured with elevation tracking on, on a gridless map.
C1_UnbandedTemplateMeasured ==
  /\ Len(calls) >= 1
  /\ settings.isTerrainRuler /\ settings.gridType = "gridless" /\ settings.useElevation
  /\ calls[1].before = PathOf(2, 0, 12, 0, <<Num(0), Num(9)>>)
  /\ \E j \in 1..Len(scene.templates) :
       scene.templates[j].max = Undef /\ scene.templates[j].multiple = Num(3)
  /\ IsNaN(calls[1].m.cost)
  /\ IsNaN(calls[1].value)

\* The sorted intersections of call i, and the path's ends as the call
\* received them.
SortedOf(i) == calls[i].m.sorted

\* The sum of the 2-D lengths of the consecutive pairs of a point list.
RECURSIVE PairLengths(_)
PairLengths(pts) ==
  IF Len(pts) < 2 THEN Num(0)
  ELSE Add(Length2d(pts[1], pts[2]), PairLengths(Tail(pts)))

\* C2: in measureCostGridless, for every path of nonzero 2-D length, the
\* sorted point list starts at the path's origin, ends at its destination
\* and is non-decreasing in distance from the origin, and the lengths of its
\* consecutive pairs sum to the path's 2-D length.
C2_SortedPartition ==
  \A i \in Measured :
    (settings.gridType = "gridless" /\ ~ZeroLength2d(calls[i].before))
    => LET pts == SortedOf(i)
           o == calls[i].before.origin
           d == calls[i].before.destination
       IN  /\ Len(pts) >= 2
           /\ pts[1].x = o.x /\ pts[1].y = o.y
           /\ pts[Len(pts)].x = d.x /\ pts[Len(pts)].y = d.y
           /\ \A j \in 1..(Len(pts) - 1) :
                ~Gt(Length2d(o, pts[j]), Length2d(o, pts[j + 1]))
           /\ PairLengths(pts) = Length2d(o, d)

\* A vertical and a slanted path have each been cut by terrain edges into
\* three or more sub-segments.
C2_PathCutByEdges ==
  /\ Len(calls) >= 1
  /\ settings.isTerrainRuler /\ settings.gridType = "gridless"
  /\ Len(SortedOf(1)) >= 4
  /\ calls[1].before.origin.x = calls[1].before.destination.x
  /\ PairLengths(SortedOf(1)) = Num(12)

\* Two values a caller cannot tell apart.
SameValue(a, b) == a = b

\* C3: calling modifyDistanceResult twice in a row with the same path
\* object, the same base distance and unchanged terrain, edge cache and
\* settings returns the same value both times.
C3_SecondCallSameValue ==
  Len(calls) >= 2 /\ calls[1].base = calls[2].base
  => SameValue(calls[1].value, calls[2].value)

\* A path whose origin lies on a terrain edge and carries a NaN elevation has
\* been measured twice: the first call returned NaN and left the origin at
\* the destination's elevation, the second call returned the base distance.
C3_SecondCallDiffers ==
  /\ Len(calls) >= 2
  /\ settings.isTerrainRuler /\ settings.gridType = "gridless" /\ settings.useElevation
  /\ IsNaN(calls[1].before.origin.z) /\ calls[1].before.destination.z = Num(0)
  /\ calls[2].before.origin.z = Num(0)
  /\ IsNaN(calls[1].value)
  /\ calls[2].value = calls[2].base

\* C9: when the origin or destination elevation of the path passed to
\* modifyDistanceResult is NaN, it is replaced by undefined before the cost
\* measurement starts.
C9_NaNElevationRemoved ==
  \A i \in Measured :
    /\ IsNaN(calls[i].before.origin.z) => calls[i].received.origin.z = Undef
    /\ IsNaN(calls[i].before.destination.z) => calls[i].received.destination.z = Undef

\* A path whose origin elevation is NaN has been measured with elevation
\* tracking on, and the measurement received the NaN.
C9_NaNReachesMeasurement ==
  /\ Len(calls) >= 1
  /\ settings.isTerrainRuler /\ settings.useElevation
  /\ IsNaN(calls[1].before.origin.z)
  /\ IsNaN(calls[1].received.origin.z)

\* C10: in measureCostGridless, when the path's 2-D length is zero and its
\* elevation delta is nonzero, the elevation ratio is 0 and the sub-segment
\* endpoint elevations derived from it are not NaN.
C10_VerticalMoveRatioZero ==
  \A i \in Measured :
    (/\ settings.gridType = "gridless"
     /\ ZeroLength2d(calls[i].received)
     /\ IsNum(calls[i].received.origin.z) /\ IsNum(calls[i].received.destination.z)
     /\ calls[i].received.origin.z # calls[i].received.destination.z)
    => /\ calls[i].m.elevation_ratio = Num(0)
       /\ \A j \in 1..Len(calls[i].m.segs) :
            ~IsNaN(calls[i].m.segs[j].start.z) /\ ~IsNaN(calls[i].m.segs[j].end.z)

\* A path that only rises has been measured on a gridless map: the ratio is
\* infinite and both endpoint elevations are NaN.
C10_VerticalMoveMeasured ==
  /\ Len(calls) >= 1
  /\ settings.isTerrainRuler /\ settings.gridType = "gridless" /\ settings.useElevation
  /\ calls[1].before = PathOf(2, 0, 0, 0, <<Num(0), Num(9)>>)
  /\ calls[1].m.elevation_ratio = Inf(1)
  /\ IsNaN(calls[1].m.segs[1].start.z) /\ IsNaN(calls[1].m.segs[1].end.z)

(***************************************************************************)
(* Properties of a gridded walk                                            *)
(***************************************************************************)
\* A diagonal rule that is none of "555", "5105" and "EUCL", on a system
\* other than pf2e.
UnknownRule(st) ==
  st.systemId # "pf2e" /\ st.diagonalRule \notin {"555", "5105", "EUCL", "none"}

\* The steps of the walk that were diagonal.
DiagonalSteps == {j \in 1..Len(walk.seen) : walk.seen[j].is_diagonal}

\* The sum of what the steps from the j-th on added.
RECURSIVE CostFrom(_)
CostFrom(j) ==
  IF j > Len(walk.seen) THEN Num(0) ELSE Add(walk.seen[j].cost, CostFrom(j + 1))

\* C4, as the code has it: under a diagonal rule the module does not know
\* the walk takes the euclidean rule: no error is raised, every diagonal step
\* adds c times the rounded euclidean distance of the step, every other step
\* c times the grid distance, and the walk returns their sum.
C4_UnknownRuleIsEuclidean ==
  UnknownRule(settings)
  => /\ ~walk.error
     /\ \A j \in 1..Len(walk.seen) :
          walk.seen[j].cost =
            IF walk.seen[j].is_diagonal
              THEN gridEuclideanCostForGridSpace(settings, walk.seen[j].c,
                                                 walk.seen[j].current, walk.seen[j].prior)
            ELSE Mul(walk.seen[j].c, Num(settings.gridDistance))
     /\ walk.total_cost = CostFrom(1)
     /\ pc = "returned" => cout.cost = walk.total_cost

\* A walk under an unknown rule has taken a diagonal step and returned a
\* cost above 0.
C4_UnknownRuleReturned ==
  /\ UnknownRule(settings)
  /\ pc = "returned"
  /\ DiagonalSteps # {}
  /\ Gt(cout.cost, Num(0))

\* C4, as the specification has it: under a diagonal rule that is not one of
\* the three known ones the walk aborts: it does not go on past a diagonal
\* step and return a cost.
C4_UnknownRuleAborts ==
  (UnknownRule(settings) /\ DiagonalSteps # {}) => pc # "returned"

\* The 5-10-5 rule is in force.
FixedAlternating(st) == st.systemId # "pf2e" /\ st.diagonalRule = "5105"

\* C5: under the 5-10-5 rule the diagonal counter counts the diagonal steps
\* taken so far (one per diagonal step, none per orthogonal step, never
\* reset); the k-th diagonal step of multiplier c costs c*d*1 for odd k and
\* c*d*2 for even k, the other way round under the "15-15-15" flag, and
\* every orthogonal step costs c*d. A step that changes row and column is
\* diagonal.
C5_AlternatingDiagonals ==
  FixedAlternating(settings)
  => /\ walk.num_diagonals = Cardinality(DiagonalSteps)
     /\ \A j \in 1..Len(walk.seen) :
          LET s == walk.seen[j]
              k == Cardinality({i \in DiagonalSteps : i <= j})
              cd == Mul(s.c, Num(settings.gridDistance))
          IN  /\ (s.current.row # s.prior.row /\ s.current.col # s.prior.col)
                   => s.is_diagonal
              /\ s.cost = IF ~s.is_diagonal THEN cd
                          ELSE IF (k % 2 = 1) = (~settings.flag1515) THEN cd
                          ELSE Mul(cd, Num(2))

\* Two diagonal steps and then an orthogonal one, each of multiplier 1 on a
\* grid of distance 5, have cost 5, 10 and 5.
C5_TwoDiagonalsThenOrthogonal ==
  /\ FixedAlternating(settings) /\ ~settings.flag1515
  /\ Len(walk.seen) = 3
  /\ walk.num_diagonals = 2
  /\ \A j \in 1..3 : walk.seen[j].c = Num(1)
  /\ walk.seen[1].is_diagonal /\ walk.seen[1].cost = Num(5)
  /\ walk.seen[2].is_diagonal /\ walk.seen[2].cost = Num(10)
  /\ ~walk.seen[3].is_diagonal /\ walk.seen[3].cost = Num(5)

\* The equidistant rule is in force.
Equidistant(st) == st.systemId = "pf2e" \/ st.diagonalRule = "555"

\* The sum of c * gridDistance over the steps from the j-th on.
RECURSIVE EquidistantFrom(_)
EquidistantFrom(j) ==
  IF j > Len(walk.seen) THEN Num(0)
  ELSE Add(Mul(walk.seen[j].c, Num(settings.gridDistance)), EquidistantFrom(j + 1))

\* C6: under the equidistant rule (diagonal rule "555", or system pf2e) the
\* gridded cost is the sum over every step the iterator yielded of the
\* incremental multiplier at the step's space times the grid distance,
\* whether the step is orthogonal, diagonal or changes elevation.
C6_EquidistantSum ==
  Equidistant(settings)
  => /\ walk.total_cost = EquidistantFrom(1)
     /\ pc = "returned" => cout.cost = EquidistantFrom(1)

\* Three steps of multiplier 1 on a grid of distance 5, one of them across
\* row and column and one up to another elevation, returned 15.
C6_ThreeStepsCostFifteen ==
  /\ Equidistant(settings) /\ settings.useElevation
  /\ pc = "returned"
  /\ Len(walk.seen) = 3
  /\ \A j \in 1..3 : walk.seen[j].c = Num(1)
  /\ \E j \in 1..3 : /\ walk.seen[j].current.row # walk.seen[j].prior.row
                       /\ walk.seen[j].current.col # walk.seen[j].prior.col
  /\ \E j \in 2..3 : walk.seen[j].current.elevation # walk.seen[j].prior.elevation
  /\ cout.cost = Num(15)

(***************************************************************************)
(* Properties of the 3-D cost of a sub-segment                             *)
(***************************************************************************)
\* A band limit in the units of the sub-segment's elevations.
InPixels(st, level) == Div(Mul(level, Num(st.grid)), Num(st.gridDistance))

\* The sub-segment's elevation span.
SpanTop == MathMax(cin.startz, cin.endz)

SpanBottom == MathMin(cin.startz, cin.endz)

\* A volume with a band of two numbers, bottom first.
Banded(v) == IsNum(v.min) /\ IsNum(v.max) /\ ~Gt(v.min, v.max)

\* The band of a volume contains the whole span.
ContainsSpan(v) ==
  /\ Banded(v)
  /\ ~Lt(SpanBottom, InPixels(settings, v.min))
  /\ ~Gt(SpanTop, InPixels(settings, v.max))

\* C7: two volumes at the midpoint whose bands both contain the span of a
\* sub-segment of length L, with incremental multipliers m1 and m2,
\* contribute (m1 + m2) * L.
C7_VolumesAdd ==
  (pc = "costed" /\ Len(cin.vols) = 2
     /\ ContainsSpan(cin.vols[1]) /\ ContainsSpan(cin.vols[2]))
  => cout.cost = Mul(Add(cin.vols[1].mult, cin.vols[2].mult), cin.segmentLength)

\* Two volumes of multipliers 2 and 1 around a sloped sub-segment of length
\* 10 cost 30, not 20.
C7_TwoVolumesCostThirty ==
  /\ pc = "costed" /\ Len(cin.vols) = 2
  /\ ContainsSpan(cin.vols[1]) /\ ContainsSpan(cin.vols[2])
  /\ cin.vols[1].mult = Num(2) /\ cin.vols[2].mult = Num(1)
  /\ cin.vols[1] # [cin.vols[2] EXCEPT !.mult = Num(2)]
  /\ SpanBottom # SpanTop
  /\ cout.cost = Num(30)

\* The fraction of the span that lies in the band of v: all of a span of
\* height 0 that lies in the band.
FractionInside(v) ==
  LET top == MathMin(SpanTop, InPixels(settings, v.max))
      bottom == MathMax(SpanBottom, InPixels(settings, v.min))
  IN  IF Gt(SpanBottom, InPixels(settings, v.max)) THEN Num(0)
      ELSE IF Lt(SpanTop, InPixels(settings, v.min)) THEN Num(0)
      ELSE IF SpanTop = SpanBottom THEN Num(1)
      ELSE Div(Sub(top, bottom), Sub(SpanTop, SpanBottom))

\* C8: for a volume with a band [min, max] of numbers, min <= max, and a
\* multiplier m > 0, proportionalCost3d returns m * segmentLength * the
\* fraction of the span [min_elevation, max_elevation] that lies in the
\* band, the band taken in the units of the span: all of it for a span in
\* the band, 0 for a span above max or below min.
C8_ProportionalToFraction ==
  pc = "costed"
  => \A i \in 1..Len(cin.vols) :
       (Banded(cin.vols[i]) /\ Gt(cin.vols[i].mult, Num(0)))
       => cout.each[i] = Mul(Mul(cin.vols[i].mult, cin.segmentLength),
                             FractionInside(cin.vols[i]))

\* Band [0, 10], span [5, 15], multiplier 1, length 10, on a map whose grid
\* unit is one pixel: the cost is 5.
C8_HalfInsideCostFive ==
  /\ pc = "costed"
  /\ settings.grid = settings.gridDistance
  /\ cin.vols = <<[min |-> Num(0), max |-> Num(10), mult |-> Num(1)]>>
  /\ SpanBottom = Num(5) /\ SpanTop = Num(15)
  /\ cin.segmentLength = Num(10)
  /\ cout.each[1] = Num(5)

(***************************************************************************)
(* Elevation tracking on a gridless map                                    *)
(***************************************************************************)
\* The multiples of a list of volumes, added.
RECURSIVE SumMultiples(_)
SumMultiples(vols) ==
  IF vols = << >> THEN Num(0) ELSE Add(vols[1].mult, SumMultiples(Tail(vols)))

\* The cost of a list of sub-segments when elevation is not considered: each
\* volume over a sub-segment's 2-D midpoint adds its multiple times the
\* sub-segment's 2-D length in grid units.
RECURSIVE CostIn2d(_, _, _)
CostIn2d(st, sc, segs) ==
  IF segs = << >> THEN Num(0)
  ELSE LET g == segs[1]
           length == Div(Mul(Length2d(g.start, g.end), Num(st.gridDistance)),
                         Num(st.grid))
           vols == VolumesAt(st, sc, Div(Add(g.start.x, g.end.x), Num(2)),
                             Div(Add(g.start.y, g.end.y), Num(2)))
       IN  Add(Mul(SumMultiples(vols), length), CostIn2d(st, sc, Tail(segs)))

\* Call i measured a path that carries no elevation, for a ruler whose
\* starting token has none either.
NoElevationGiven(i) ==
  /\ calls[i].before.origin.z = Undef
  /\ calls[i].before.destination.z = Undef
  /\ flags.starting_token.elevation = Undef

\* C11: with elevation tracking on, on a gridless map, a path without any
\* elevation (no z at its ends, no starting-token elevation) is measured as
\* in 2-D: the cost is a number, each volume over a sub-segment adding its
\* multiple times the sub-segment's length.
C11_NoElevationMeasuredIn2d ==
  \A i \in Measured :
    (settings.gridType = "gridless" /\ settings.useElevation /\ NoElevationGiven(i))
    => /\ IsNum(calls[i].m.cost)
       /\ calls[i].m.cost = CostIn2d(settings, calls[i].scene, calls[i].m.segs)

\* A path without any elevation has been measured across a volume of
\* multiple 3, and the cost is NaN where 2-D measurement gives a number > 0.
C11_NoElevationCostIsNaN ==
  /\ Len(calls) >= 1
  /\ settings.isTerrainRuler /\ settings.gridType = "gridless" /\ settings.useElevation
  /\ NoElevationGiven(1)
  /\ Gt(CostIn2d(settings, calls[1].scene, calls[1].m.segs), Num(0))
  /\ IsNaN(calls[1].m.cost)

(***************************************************************************)
(* The gridless measurement without elevation tracking                     *)
(***************************************************************************)
\* The multiplier the terrain provider reports at the 2-D midpoint of A and
\* B, less one and not below zero.
MidpointIncrement(sc, A, B) ==
  MathMax(Num(0), Sub(getCostEnhancedTerrainlayer(sc, Div(Add(A.x, B.x), Num(2)),
                                                  Div(Add(A.y, B.y), Num(2)), Undef),
                      Num(1)))

\* The 2-D length of A to B in grid units.
GridUnits(st, A, B) == Div(Mul(Length2d(A, B), Num(st.gridDistance)), Num(st.grid))

\* The sum over the consecutive pairs of a point list of the pair's length
\* in grid units times the increment at its midpoint.
RECURSIVE SumOfMidpointCosts(_, _, _)
SumOfMidpointCosts(st, sc, pts) ==
  IF Len(pts) < 2 THEN Num(0)
  ELSE Add(Mul(GridUnits(st, pts[1], pts[2]), MidpointIncrement(sc, pts[1], pts[2])),
           SumOfMidpointCosts(st, sc, Tail(pts)))

\* No cached edge of call i meets the path the call measured.
CrossesNoEdge(i) ==
  \A e \in 1..Len(calls[i].edges) :
    intersection(calls[i].edges[e], [p1 |-> calls[i].received.origin,
                                     p2 |-> calls[i].received.destination]) = << >>

\* C12: with elevation tracking off, on a gridless map, the cost is the sum
\* over the sub-segments of (length in grid units) * max(0, provider cost at
\* the 2-D midpoint - 1); a path that crosses no edge has the intersection
\* list [origin, destination] and costs (path length) * (increment at the
\* path's midpoint).
C12_SumOverSubSegments ==
  \A i \in Measured :
    (settings.gridType = "gridless" /\ ~settings.useElevation)
    => LET o == calls[i].before.origin
           d == calls[i].before.destination
       IN  /\ calls[i].m.cost = SumOfMidpointCosts(settings, calls[i].scene, SortedOf(i))
           /\ CrossesNoEdge(i)
              => /\ Len(SortedOf(i)) = 2
                 /\ SortedOf(i)[1].ref = "origin" /\ SortedOf(i)[2].ref = "destination"
                 /\ calls[i].m.cost = Mul(GridUnits(settings, o, d),
                                          MidpointIncrement(calls[i].scene, o, d))

\* A path 12 units long that none of the cached edges cuts has been measured
\* without elevation tracking inside a terrain of multiple 3, at cost 24.
C12_UncutPathCostsTwiceItsLength ==
  /\ Len(calls) >= 1
  /\ settings.isTerrainRuler /\ settings.gridType = "gridless" /\ ~settings.useElevation
  /\ settings.grid = settings.gridDistance
  /\ CrossesNoEdge(1)
  /\ Len(calls[1].edges) >= 4
  /\ Length2d(calls[1].before.origin, calls[1].before.destination) = Num(12)
  /\ calls[1].m.cost = Num(24)

(***************************************************************************)
(* What a measurement leaves behind                                        *)
(***************************************************************************)
\* The path object as call i left it: nothing but a call writes to it.
PathAfter(i) == IF i = Len(calls) THEN path ELSE calls[i + 1].before

\* C13: a cost measurement has no side effect on its inputs: when
\* modifyDistanceResult returns, the path's origin and destination, their z
\* included, and the cached edges are what they were before the call.
C13_InputsUnchanged ==
  \A i \in 1..Len(calls) :
    /\ PathAfter(i) = calls[i].before
    /\ flags.terrain_edges = calls[i].edges

\* A path descending from elevation 9 to 0 has been measured with elevation
\* tracking on, on a gridless map, and is left running from 0 to -9.
C13_PathElevationsOverwritten ==
  /\ Len(calls) >= 1
  /\ settings.isTerrainRuler /\ settings.gridType = "gridless" /\ settings.useElevation
  /\ calls[1].before = PathOf(2, 0, 12, 0, <<Num(9), Num(0)>>)
  /\ PathAfter(1) = PathOf(2, 0, 12, 0, <<Num(0), Num(-9)>>)
  /\ flags.terrain_edges = calls[1].edges

(***************************************************************************)
(* The edge cache of a session                                             *)
(***************************************************************************)
\* The edges the collector would find on the map as it is now.
EdgesNow == collectTerrainEdges(scene, flags.starting_token.id)

\* The collector runs once, in the addProperties call of segment 0, and no
\* measurement precedes it.
CollectorRunsOnce ==
  /\ collected' # collected
     => segments = 0 /\ calls = << >> /\ collected = 0 /\ collected' = 1
  /\ calls' # calls => collected = 1

\* Once segment 0 has its properties the cached edges stay as they are.
CacheWrittenOnce ==
  segments > 0 => flags'.terrain_edges = flags.terrain_edges

\* C14: over the addProperties and modifyDistanceResult calls of a gridless
\* session collectTerrainEdges runs exactly once, in the addProperties call
\* of segment 0 and before any measurement reads the cache, and neither a
\* later addProperties call nor a measurement rewrites the cache, even when
\* terrain has changed meanwhile.
C14_CollectedOnceNeverRewritten == [][CollectorRunsOnce /\ CacheWrittenOnce]_vars

\* What the session does keep: the collector runs in the addProperties call
\* of segment 0 alone, twice there, and the cache is never rewritten.
SessionCacheIsStable ==
  [][/\ collected' # collected
        => segments = 0 /\ calls = << >> /\ collected = 0 /\ collected' = 2
     /\ calls' # calls => collected = 2
     /\ CacheWrittenOnce]_vars

\* The collector has run twice for segment 0; terrain has changed since and
\* a later segment and a measurement have used the cache, which is stale.
C14_CollectedTwiceCacheStale ==
  /\ segments >= 2
  /\ Len(calls) >= 1
  /\ collected = 2
  /\ calls[Len(calls)].edges = flags.terrain_edges
  /\ flags.terrain_edges # EdgesNow
  /\ calls[Len(calls)].scene = scene

(***************************************************************************)
(* The collected edges                                                     *)
(***************************************************************************)
\* The four sides of a token's box.
BoxEdges(t) ==
  {LineSegment(t.x0, t.y0, t.x1, t.y0), LineSegment(t.x1, t.y0, t.x1, t.y1),
   LineSegment(t.x1, t.y1, t.x0, t.y1), LineSegment(t.x0, t.y1, t.x0, t.y0)}

\* The edges in the ruler's cache.
CachedEdges == {flags.terrain_edges[i] : i \in 1..Len(flags.terrain_edges)}

\* The tokens of the scene other than the one the ruler moves.
OtherTokens ==
  {scene.tokens[i] : i \in {j \in 1..Len(scene.tokens) :
                              scene.tokens[j].id # flags.starting_token.id}}

\* C15: collectTerrainEdges(token_id_to_exclude) returns, for every token of
\* the map with another id, the four edges of that token's box, and no edge
\* of the excluded token. Stated of the set the session caches.
C15_TokenEdgesCollected ==
  (flags.edges_set /\ settings.gridType = "gridless")
  => /\ \A t \in OtherTokens : BoxEdges(t) \subseteq CachedEdges
     /\ \A i \in 1..Len(scene.tokens) :
          scene.tokens[i].id = flags.starting_token.id
          => BoxEdges(scene.tokens[i]) \cap CachedEdges = {}

\* The edges of a map with a token beside the moving one have been
\* collected, and none of that token's four edges is among them.
C15_TokenEdgesMissing ==
  /\ flags.edges_set /\ settings.gridType = "gridless"
  /\ flags.terrain_edges = collectTerrainEdges(scene, flags.starting_token.id)
  /\ OtherTokens # {}
  /\ \A t \in OtherTokens : BoxEdges(t) \cap CachedEdges = {}

(***************************************************************************)
(* Steps of the gridded walk that change elevation                         *)
(***************************************************************************)
\* The walk classifies its steps: the rule is 5-10-5 or euclidean.
ClassifiesSteps(st) == CostCalculationType(st) # "equidistant"

\* The j-th step stays in the grid space of the step before it.
SameSpace(j) ==
  /\ walk.seen[j].current.row = walk.seen[j].prior.row
  /\ walk.seen[j].current.col = walk.seen[j].prior.col

\* The j-th step's elevation and the prior step's are numbers that differ.
ElevationDiffers(j) ==
  LET elevation == StepElevation(settings, path, walk.seen[j].current)
      prior_elevation == walk.seen[j].prior.elevation
  IN  IsNum(elevation) /\ IsNum(prior_elevation) /\ elevation # prior_elevation

\* C16, as the code has it: under the 5-10-5 and euclidean rules a step that
\* stays in the prior step's grid space is not diagonal, whether or not its
\* elevation differs: it costs the equidistant amount c*d and leaves the
\* diagonal counter, which counts the diagonal steps, as it was.
C16_StraightUpIsNotDiagonal ==
  ClassifiesSteps(settings)
  => /\ walk.num_diagonals = Cardinality(DiagonalSteps)
     /\ \A j \in 1..Len(walk.seen) :
          SameSpace(j)
          => /\ ~walk.seen[j].is_diagonal
             /\ walk.seen[j].cost = Mul(walk.seen[j].c, Num(settings.gridDistance))

\* A walk under the 5-10-5 or the euclidean rule has taken a step that
\* stays in its grid space at another elevation, over terrain of multiple
\* 2, and the step was costed as an orthogonal one.
C16_StraightUpStepTaken ==
  /\ ClassifiesSteps(settings) /\ settings.useElevation
  /\ \E j \in 1..Len(walk.seen) :
       /\ SameSpace(j) /\ ElevationDiffers(j)
       /\ ~walk.seen[j].is_diagonal
       /\ walk.seen[j].c = Num(1)
       /\ walk.seen[j].cost = Num(settings.gridDistance)
       /\ walk.num_diagonals = Cardinality(DiagonalSteps \ {j})

\* C16, as the specification has it: under the 5-10-5 and euclidean rules a
\* step in the prior step's row and column whose elevation differs is
\* diagonal: it is counted and costed by the diagonal branch.
C16_StraightUpIsDiagonal ==
  ClassifiesSteps(settings)
  => \A j \in 1..Len(walk.seen) :
       (SameSpace(j) /\ ElevationDiffers(j)) => walk.seen[j].is_diagonal

(***************************************************************************)
(* The elevations along a gridless path                                    *)
(***************************************************************************)
\* The elevation of the straight line from the origin o to the destination
\* d at the point p, by p's 2-D distance from o.
ElevationOnLine(o, d, p) ==
  Add(o.z, Div(Mul(Length2d(o, p), Sub(d.z, o.z)), Length2d(o, d)))

\* Call i measured, with elevation tracking on, a gridless path of nonzero
\* 2-D length whose ends both had a numeric elevation.
Interpolates(i) ==
  /\ settings.isTerrainRuler /\ settings.gridType = "gridless" /\ settings.useElevation
  /\ ~ZeroLength2d(calls[i].received)
  /\ IsNum(calls[i].received.origin.z) /\ IsNum(calls[i].received.destination.z)

\* C17: with elevation tracking on, measureCostGridless gives each end of a
\* sub-segment, at 2-D distance s from the origin, the elevation
\* origin.z + s * (destination.z - origin.z) / pathLength2d: the first
\* sub-segment starts at origin.z, the last ends at destination.z, and on a
\* path without net elevation change every end is at origin.z.
C17_ElevationInterpolated ==
  \A i \in 1..Len(calls) :
    Interpolates(i)
    => LET o == calls[i].received.origin
           d == calls[i].received.destination
           segs == calls[i].m.segs
       IN  /\ segs # << >>
           /\ \A j \in 1..Len(segs) :
                /\ segs[j].start.z = ElevationOnLine(o, d, segs[j].start)
                /\ segs[j].end.z = ElevationOnLine(o, d, segs[j].end)
           /\ segs[1].start.z = o.z
           /\ segs[Len(segs)].end.z = d.z
           /\ o.z = d.z => \A j \in 1..Len(segs) : segs[j].start.z = o.z /\ segs[j].end.z = o.z

\* A path descending from elevation 9 to 0 over 12 units has been cut in
\* sub-segments, the first of which starts at elevation 0 and the last of
\* which ends at elevation -9.
C17_DescentStartsAtZero ==
  /\ Len(calls) >= 1
  /\ Interpolates(1)
  /\ calls[1].received = PathOf(2, 0, 12, 0, <<Num(9), Num(0)>>)
  /\ Len(calls[1].m.segs) >= 2
  /\ calls[1].m.elevation_ratio = Rat(-3, 4)
  /\ calls[1].m.segs[1].start.z = Num(0)
  /\ calls[1].m.segs[Len(calls[1].m.segs)].end.z = Num(-9)

(***************************************************************************)
(* Volumes without an elevation band                                       *)
(***************************************************************************)
\* A volume with neither a bottom nor a top.
Unbanded(v) == v.min = Undef /\ v.max = Undef

\* C18: a volume whose min or max is absent is unbounded on that side: with
\* both absent and a multiplier m > 0, a sub-segment whose ends have an
\* elevation contributes all of m * segmentLength, never NaN.
C18_UnbandedVolumeCostsAll ==
  (pc = "costed" /\ IsNum(cin.startz) /\ IsNum(cin.endz))
  => \A i \in 1..Len(cin.vols) :
       (Unbanded(cin.vols[i]) /\ Gt(cin.vols[i].mult, Num(0)))
       => /\ ~IsNaN(cout.each[i])
          /\ cout.each[i] = Mul(cin.vols[i].mult, cin.segmentLength)
          /\ ~IsNaN(cout.cost)

\* A sub-segment climbing from 0 to 5 has been costed against one volume
\* without a band, of multiplier 1, and the cost is NaN.
C18_SlopedSpanCostsNaN ==
  /\ pc = "costed"
  /\ cin.vols = <<[min |-> Undef, max |-> Undef, mult |-> Num(1)]>>
  /\ cin.startz = Num(0) /\ cin.endz = Num(5)
  /\ IsNaN(cout.each[1])
  /\ IsNaN(cout.cost)

(***************************************************************************)
(* The first step of the gridded walk                                      *)
(***************************************************************************)
\* The j-th step leaves the grid space of the step before it along a row or
\* a column.
Orthogonal(j) ==
  (walk.seen[j].current.row = walk.seen[j].prior.row)
    # (walk.seen[j].current.col = walk.seen[j].prior.col)

\* C19: with elevation tracking on, the walk starts with a prior step that
\* is the grid space of the path's origin at the origin's elevation z, so
\* that a first step at another elevation than the origin's is taken for a
\* change of elevation when it is classified.
C19_PriorStartsAtOriginElevation ==
  (settings.useElevation /\ pc # "called")
  => /\ Len(walk.seen) = 0 => walk.prior.elevation = path.origin.z
     /\ Len(walk.seen) >= 1
        => /\ walk.seen[1].prior.elevation = path.origin.z
           /\ (/\ ClassifiesSteps(settings) /\ Orthogonal(1)
               /\ IsNum(StepElevation(settings, path, walk.seen[1].current))
               /\ StepElevation(settings, path, walk.seen[1].current) # path.origin.z)
              => walk.seen[1].is_diagonal

\* The first step of a walk from an origin at elevation 0 went along a row
\* or a column to elevation 10 and was not taken for a diagonal step.
C19_FirstClimbNotSeen ==
  /\ settings.useElevation /\ ClassifiesSteps(settings)
  /\ path.origin.z = Num(0)
  /\ Len(walk.seen) >= 1
  /\ Orthogonal(1)
  /\ walk.seen[1].current.elevation = Num(10)
  /\ walk.seen[1].prior.elevation = Undef
  /\ ~walk.seen[1].is_diagonal
  /\ walk.num_diagonals = Cardinality(DiagonalSteps \ {1})

=============================================================================
